---- MODULE Spec2Model ----
(***************************************************************************)
(* Verification model of the semantic memory and retrieval core of         *)
(* tensorpilot: MemoryStore (src/workflow/memory.py), RAGManager           *)
(* (src/workflow/rag.py), ReActPlanner (src/workflow/react.py) and         *)
(* LangGraphSystem (src/workflow/graph.py).                                *)
(*                                                                         *)
(* store is a MemoryStore, rag a RAGManager, clock the time, call the call *)
(* in progress with its result; threads and heap are used only by the     *)
(* specifications of concurrent calls, lg_rag only by LangGraphSystem.     *)
(*                                                                         *)
(* Text is a sequence of one-character strings.  An optional value         *)
(* (Python None or a value) is a sequence of length 0 or 1.  A score is an *)
(* exact fraction [num, den] with den > 0; the embedding vectors of the    *)
(* model have integer norms, so every score of the code is such a fraction *)
(* and two scores are equal as floats exactly when the fractions are equal.*)
(***************************************************************************)
EXTENDS Integers, Sequences, FiniteSets, TLC

VARIABLES store, rag, clock, call, threads, heap, lg_rag

vars == <<store, rag, clock, call, threads, heap, lg_rag>>

(***************************************************************************)
(* Python values                                                           *)
(***************************************************************************)
None == <<>>
Some(v) == <<v>>

Range(s) == {s[i] : i \in 1..Len(s)}

Max(a, b) == IF a >= b THEN a ELSE b

Min(a, b) == IF a <= b THEN a ELSE b

\* str.lower() on the characters of the model
LowerChar(c) == CASE c = "A" -> "a" [] c = "B" -> "b" [] OTHER -> c

Lower(s) == [i \in 1..Len(s) |-> LowerChar(s[i])]

\* q in t (substring test of str); the empty string is in every string
IsSubstring(q, t) ==
    \E i \in 0..(Len(t) - Len(q)) : SubSeq(t, i + 1, i + Len(q)) = q

Whitespace == {" ", "\n"}

RECURSIVE SplitFrom(_, _, _)
SplitFrom(s, cur, acc) ==
    IF s = <<>>
    THEN IF cur = <<>> THEN acc ELSE Append(acc, cur)
    ELSE IF Head(s) \in Whitespace
         THEN SplitFrom(Tail(s), <<>>, IF cur = <<>> THEN acc ELSE Append(acc, cur))
         ELSE SplitFrom(Tail(s), Append(cur, Head(s)), acc)

\* str.split(): the maximal runs of non-whitespace characters, in order
Split(s) == SplitFrom(s, <<>>, <<>>)

\* str.strip()
RECURSIVE LStrip(_)
LStrip(s) == IF s # <<>> /\ Head(s) \in Whitespace THEN LStrip(Tail(s)) ELSE s

RECURSIVE RStrip(_)
RStrip(s) ==
    IF s # <<>> /\ s[Len(s)] \in Whitespace THEN RStrip(SubSeq(s, 1, Len(s) - 1)) ELSE s

Strip(s) == RStrip(LStrip(s))

(***************************************************************************)
(* Scores                                                                  *)
(***************************************************************************)
Frac(n, d) == [num |-> n, den |-> d]

ScoreZero == Frac(0, 1)

ScoreOne == Frac(1, 1)

ScoreEq(a, b) == a.num * b.den = b.num * a.den

ScoreGT(a, b) == a.num * b.den > b.num * a.den

ScorePositive(a) == a.num > 0

RECURSIVE SumSeq(_)
SumSeq(s) == IF s = <<>> THEN 0 ELSE Head(s) + SumSeq(Tail(s))

Dot(a, b) == SumSeq([i \in 1..Len(a) |-> a[i] * b[i]])

\* math.sqrt on the sums of squares of the model's vectors (perfect squares)
ISqrt(n) == CHOOSE k \in 0..n : k * k = n

Norm(a) == ISqrt(Dot(a, a))

_cosine_similarity(a, b) ==
    IF a = <<>> \/ b = <<>> \/ Len(a) # Len(b)
    THEN ScoreZero
    ELSE IF Norm(a) = 0 \/ Norm(b) = 0
         THEN ScoreZero
         ELSE Frac(Dot(a, b), Norm(a) * Norm(b))

\* the words of set(q.split()) that occur in t
CommonWords(q, t) == {w \in Range(Split(q)) : IsSubstring(w, t)}

\* the else branch of the scoring in query_memory
HeuristicScore(query, text) ==
    LET q == Lower(query)
        t == Lower(text)
    IN IF IsSubstring(q, t)
       THEN ScoreOne
       ELSE Frac(Cardinality(CommonWords(q, t)), 10 * Max(1, Len(Split(q))))

\* Python truth value of an optional vector: None and [] are false
Truthy(optvec) == optvec # None /\ optvec[1] # <<>>

RecordScore(query, query_emb, rec) ==
    IF Truthy(query_emb) /\ Truthy(rec.emb)
    THEN _cosine_similarity(query_emb[1], rec.emb[1])
    ELSE HeuristicScore(query, rec.text)

(***************************************************************************)
(* MemoryStore                                                             *)
(***************************************************************************)
\* MemoryStore.__init__; embedding_dim 0 stands for None (both are false in
\* "if self.embedding_dim and ...")
NewStore(fn, dim) ==
    [embedding_fn |-> fn, embedding_dim |-> dim,
     conversations |-> <<>>, vectors |-> <<>>]

\* self.conversations.get(convo_id, [])
Conversation(st, convo_id) ==
    IF convo_id \in DOMAIN st.conversations THEN st.conversations[convo_id] ELSE <<>>

\* the formatted id f"turn:{convo_id}:{n}"
TurnId(convo_id, n) == <<"turn", convo_id, n>>

\* A plausible slip: the position in the vector index instead of the position
\* in the owner's history
TurnSeqOfIndex(st, hist) == Len(st.vectors)

\* line 67: len(self.conversations[convo_id]) - 1, after the append of line 55
TurnSeq(st, hist) == Len(hist) - 1

\* What one call of the injected embedding function does: it raises (None
\* here) or returns a vector (Some(v)).
Raised == None

\* A plausible slip: the dimension check of line 61 left out
StoredEmbeddingUnchecked(st, outcome) ==
    IF ~st.embedding_fn THEN None ELSE outcome

\* lines 57-65: the embedding kept for a new record
StoredEmbedding(st, outcome) ==
    IF ~st.embedding_fn
    THEN None
    ELSE IF outcome = Raised
         THEN None
         ELSE IF st.embedding_dim # 0 /\ Len(outcome[1]) # st.embedding_dim
              THEN None
              ELSE outcome

\* add_conversation_turn: the store after the call and whether the call raised
add_conversation_turn(st, convo_id, role, text, timestamp, outcome) ==
    LET turn == [role |-> role, text |-> text, timestamp |-> timestamp]
        hist == Append(Conversation(st, convo_id), turn)
        convs == [c \in DOMAIN st.conversations \cup {convo_id} |->
                     IF c = convo_id THEN hist ELSE st.conversations[c]]
        emb == StoredEmbedding(st, outcome)
        rec == [id |-> TurnId(convo_id, TurnSeq(st, hist)), owner |-> convo_id,
                text |-> text, emb |-> emb, timestamp |-> timestamp]
    IN [store |-> [st EXCEPT !.conversations = convs,
                             !.vectors = Append(st.vectors, rec)],
        error |-> FALSE]

\* lines 89-94: the query embedding (no dimension check)
QueryEmbedding(st, outcome) ==
    IF ~st.embedding_fn THEN None ELSE outcome

\* line 97: "if owner and owner != owner_id: continue"
OwnerMatches(owner, rec) == owner = None \/ owner[1] = rec.owner

Hit(rec, score) ==
    [id |-> rec.id, owner |-> rec.owner, text |-> rec.text, score |-> score,
     timestamp |-> rec.timestamp]

\* lines 96-113: the hits in index order
RECURSIVE ScoredHits(_, _, _, _)
ScoredHits(recs, query, query_emb, owner) ==
    IF recs = <<>>
    THEN <<>>
    ELSE LET r == Head(recs)
             rest == ScoredHits(Tail(recs), query, query_emb, owner)
             score == RecordScore(query, query_emb, r)
         IN IF OwnerMatches(owner, r) /\ ScorePositive(score)
            THEN <<Hit(r, score)>> \o rest
            ELSE rest

RECURSIVE InsertDescUnstable(_, _)
\* A plausible slip: an unstable descending sort (x goes before its equals)
InsertDescUnstable(sorted, x) ==
    IF sorted = <<>>
    THEN <<x>>
    ELSE IF ~ScoreGT(Head(sorted).score, x.score)
         THEN <<x>> \o sorted
         ELSE <<Head(sorted)>> \o InsertDescUnstable(Tail(sorted), x)

\* x goes after every element whose score is >= its own
RECURSIVE InsertDesc(_, _)
InsertDesc(sorted, x) ==
    IF sorted = <<>>
    THEN <<x>>
    ELSE IF ScoreGT(x.score, Head(sorted).score)
         THEN <<x>> \o sorted
         ELSE <<Head(sorted)>> \o InsertDesc(Tail(sorted), x)

RECURSIVE SortFrom(_, _)
SortFrom(todo, sorted) ==
    IF todo = <<>> THEN sorted ELSE SortFrom(Tail(todo), InsertDesc(sorted, Head(todo)))

\* list.sort(key=score, reverse=True): stable, descending
SortByScoreDesc(hits) == SortFrom(hits, <<>>)

\* the slice s[:k] of Python, k of either sign
SliceTo(s, k) ==
    IF k >= 0
    THEN SubSeq(s, 1, Min(k, Len(s)))
    ELSE SubSeq(s, 1, Max(0, Len(s) + k))

query_memory(st, query, owner, top_k, outcome) ==
    SliceTo(SortByScoreDesc(ScoredHits(st.vectors, query,
                                       QueryEmbedding(st, outcome), owner)),
            top_k)

(***************************************************************************)
(* RAGManager                                                              *)
(***************************************************************************)
\* the reserved owner key 'global' and the key f'user:{user_id}'
GlobalOwner == <<"global">>

UserOwner(user_id) == <<"user:", user_id>>

\* f"{doc_id}: {text}"
DocText(doc_id, text) == doc_id \o <<":", " ">> \o text

\* RAGManager.__init__; objects counts the MemoryStore objects constructed so
\* far, and a user store carries the number of its construction (its identity)
NewRag(fn, dim) ==
    [global_store |-> NewStore(fn, dim), user_stores |-> <<>>, objects |-> 1]

\* A plausible slip: a fresh store on every call
_get_user_store_fresh(r, user_id) ==
    [r EXCEPT !.user_stores =
                  [u \in DOMAIN r.user_stores \cup {user_id} |->
                      IF u = user_id
                      THEN [obj |-> r.objects + 1,
                            st |-> NewStore(r.global_store.embedding_fn,
                                            r.global_store.embedding_dim)]
                      ELSE r.user_stores[u]],
              !.objects = r.objects + 1]

\* _get_user_store: the manager after the call; the store is user_stores[user_id]
_get_user_store(r, user_id) ==
    IF user_id \notin DOMAIN r.user_stores
    THEN [r EXCEPT !.user_stores =
                       [u \in DOMAIN r.user_stores \cup {user_id} |->
                           IF u = user_id
                           THEN [obj |-> r.objects + 1,
                                 st |-> NewStore(r.global_store.embedding_fn,
                                                 r.global_store.embedding_dim)]
                           ELSE r.user_stores[u]],
                   !.objects = r.objects + 1]
    ELSE r

add_global_document(r, doc_id, text, timestamp, outcome) ==
    [r EXCEPT !.global_store =
        add_conversation_turn(r.global_store, GlobalOwner, "system",
                              DocText(doc_id, text), timestamp, outcome).store]

add_user_document(r, user_id, doc_id, text, timestamp, outcome) ==
    LET r1 == _get_user_store(r, user_id)
    IN [r1 EXCEPT !.user_stores[user_id].st =
          add_conversation_turn(r1.user_stores[user_id].st, UserOwner(user_id),
                                "system", DocText(doc_id, text), timestamp,
                                outcome).store]

\* r['source'] = source for every hit of one store
Tagged(hits, source) ==
    [i \in 1..Len(hits) |->
        [id |-> hits[i].id, owner |-> hits[i].owner, text |-> hits[i].text,
         score |-> hits[i].score, timestamp |-> hits[i].timestamp,
         source |-> source]]

\* lines 80-87: the first hit of every text
RECURSIVE DedupByText(_, _)
DedupByText(hits, seen_texts) ==
    IF hits = <<>>
    THEN <<>>
    ELSE IF Head(hits).text \in seen_texts
         THEN DedupByText(Tail(hits), seen_texts)
         ELSE <<Head(hits)>> \o DedupByText(Tail(hits), seen_texts \cup {Head(hits).text})

\* A plausible slip: user hits put before global hits
MergeUserFirst(ghits, uhits) == uhits \o ghits

\* lines 66-77: results, global hits appended first
MergeResults(ghits, uhits) == ghits \o uhits

\* A plausible slip: the user hits taken from whichever user store comes first
\* in the dict, with no owner filter
retrieve_any_user(r, query, user_id, top_k_global, top_k_user, gout, uout) ==
    LET ghits == Tagged(query_memory(r.global_store, query, Some(GlobalOwner),
                                     top_k_global, gout), "global")
        r1 == IF user_id # None THEN _get_user_store(r, user_id[1]) ELSE r
        first == CHOOSE u \in DOMAIN r1.user_stores : TRUE
        uhits == IF user_id # None
                 THEN Tagged(query_memory(r1.user_stores[first].st, query, None,
                                          top_k_user, uout), "user")
                 ELSE <<>>
    IN [rag |-> r1, ghits |-> ghits, uhits |-> uhits,
        hits |-> DedupByText(SortByScoreDesc(MergeResults(ghits, uhits)), {})]

\* retrieve: the manager after the call (a user store may be created), the
\* hits of each store, and the merged hits.  user_id None stands for a false
\* user_id; gout and uout are what the embedder does in the two queries.
retrieve(r, query, user_id, top_k_global, top_k_user, gout, uout) ==
    LET ghits == Tagged(query_memory(r.global_store, query, Some(GlobalOwner),
                                     top_k_global, gout), "global")
        r1 == IF user_id # None THEN _get_user_store(r, user_id[1]) ELSE r
        uhits == IF user_id # None
                 THEN Tagged(query_memory(r1.user_stores[user_id[1]].st, query,
                                          Some(UserOwner(user_id[1])),
                                          top_k_user, uout), "user")
                 ELSE <<>>
    IN [rag |-> r1, ghits |-> ghits, uhits |-> uhits,
        hits |-> DedupByText(SortByScoreDesc(MergeResults(ghits, uhits)), {})]

\* h['source'].upper()
Upper(source) == CASE source = "global" -> "GLOBAL" [] source = "user" -> "USER"

\* "\n".join(parts)
RECURSIVE JoinLines(_)
JoinLines(parts) ==
    IF parts = <<>>
    THEN <<>>
    ELSE IF Len(parts) = 1
         THEN Head(parts)
         ELSE Head(parts) \o <<"\n">> \o JoinLines(Tail(parts))

\* A plausible slip: the early return of lines 93-94 left out
ContextOfHeaderAlways(hits) ==
    <<"Relevant documents (RAG):", "\n">>
    \o JoinLines([i \in 1..Len(hits) |->
                     <<"[", Upper(hits[i].source), "]", " ">> \o hits[i].text])

\* lines 93-99: the context text of the merged hits, "" when there is none
ContextOf(hits) ==
    IF hits = <<>>
    THEN <<>>
    ELSE <<"Relevant documents (RAG):", "\n">>
         \o JoinLines([i \in 1..Len(hits) |->
                          <<"[", Upper(hits[i].source), "]", " ">> \o hits[i].text])

\* build_rag_context with the default k_global = k_user = 3
build_rag_context(r, query, user_id, gout, uout) ==
    LET res == retrieve(r, query, user_id, 3, 3, gout, uout)
    IN [rag |-> res.rag, hits |-> res.hits, ctx |-> ContextOf(res.hits)]

(***************************************************************************)
(* ReActPlanner                                                            *)
(***************************************************************************)
SentenceEnd == {".", "?", "!"}

Digits == {"0", "1", "2", "3", "4", "5", "6", "7", "8", "9"}

\* the character class [0-9=+\-*/^()]
MathChars == Digits \cup {"=", "+", "-", "*", "/", "^", "(", ")"}

\* re.split(r"(?<=[\.\?\!])\s+", problem): s is cut at every run of whitespace
\* that starts right after a sentence end; prev is the character before s
RECURSIVE SplitSentencesFrom(_, _, _)
SplitSentencesFrom(s, prev, cur) ==
    IF s = <<>>
    THEN <<cur>>
    ELSE IF Head(s) \in Whitespace /\ prev \in SentenceEnd
         THEN <<cur>> \o SplitSentencesFrom(LStrip(s), " ", <<>>)
         ELSE SplitSentencesFrom(Tail(s), Head(s), Append(cur, Head(s)))

SplitSentences(problem) == SplitSentencesFrom(problem, "", <<>>)

\* s.split(',')
RECURSIVE SplitCommaFrom(_, _)
SplitCommaFrom(s, cur) ==
    IF s = <<>>
    THEN <<cur>>
    ELSE IF Head(s) = ","
         THEN <<cur>> \o SplitCommaFrom(Tail(s), <<>>)
         ELSE SplitCommaFrom(Tail(s), Append(cur, Head(s)))

SplitComma(s) == SplitCommaFrom(s, <<>>)

\* [p.strip() for p in parts if p.strip()]
RECURSIVE StrippedNonEmpty(_)
StrippedNonEmpty(parts) ==
    IF parts = <<>>
    THEN <<>>
    ELSE IF Strip(Head(parts)) = <<>>
         THEN StrippedNonEmpty(Tail(parts))
         ELSE <<Strip(Head(parts))>> \o StrippedNonEmpty(Tail(parts))

\* A plausible slip: the comma test made before the test for an equation
SentenceStepsCommaFirst(sentence) ==
    LET s == Strip(sentence)
    IN IF s = <<>>
       THEN <<>>
       ELSE IF \E i \in 1..Len(s) : s[i] = ","
            THEN StrippedNonEmpty(SplitComma(s))
            ELSE <<s>>

\* lines 99-112: the steps of one sentence
SentenceSteps(sentence) ==
    LET s == Strip(sentence)
    IN IF s = <<>>
       THEN <<>>
       ELSE IF \E i \in 1..Len(s) : s[i] \in MathChars
            THEN <<s>>
            ELSE IF \E i \in 1..Len(s) : s[i] = ","
                 THEN StrippedNonEmpty(SplitComma(s))
                 ELSE <<s>>

RECURSIVE StepsOf(_)
StepsOf(sentences) ==
    IF sentences = <<>>
    THEN <<>>
    ELSE SentenceSteps(Head(sentences)) \o StepsOf(Tail(sentences))

\* rag_ctx.replace('\n', ' | ')
ReplaceNewlines(text) ==
    [i \in 1..Len(text) |-> IF text[i] = "\n" THEN " | " ELSE text[i]]

_decompose_problem(problem, rag_ctx) ==
    LET steps == StepsOf(SplitSentences(problem))
    IN IF rag_ctx # <<>>
       THEN <<<<"Consult relevant formulas and proofs: ">> \o ReplaceNewlines(rag_ctx)>>
            \o steps
       ELSE steps

\* MCP.sympy_eval: ok tells whether sympify and simplify succeed on expr; both
\* outcomes are returned as a string, nothing is raised
sympy_eval(expr, ok) ==
    [raised |-> FALSE,
     value |-> IF ok THEN <<"simplified", expr>> ELSE <<"SymPy error: ", expr>>]

\* A plausible slip: the verify flag ignored
VerifyStepAlways(step, verify, ok) ==
    [res |-> [step |-> step,
              verification |-> Some([tool |-> "sympy",
                                     result |-> sympy_eval(step, ok).value])],
     sympy_calls |-> <<step>>]

\* lines 75-83: the plan entry of one step and the calls made to MCP.sympy_eval
VerifyStep(step, verify, ok) ==
    IF verify
    THEN LET r == sympy_eval(step, ok)
         IN [res |-> [step |-> step,
                      verification |->
                          Some(IF r.raised
                               THEN [tool |-> "sympy", error |-> r.value]
                               ELSE [tool |-> "sympy", result |-> r.value])],
             sympy_calls |-> <<step>>]
    ELSE [res |-> [step |-> step, verification |-> None], sympy_calls |-> <<>>]

RECURSIVE ConcatAll(_)
ConcatAll(seqs) == IF seqs = <<>> THEN <<>> ELSE Head(seqs) \o ConcatAll(Tail(seqs))

\* plan: the manager after the call, the hits retrieved for the context, the
\* returned dict (without the duration) and the calls made to MCP.sympy_eval,
\* in order.  sympy_ok[i] tells whether
\* sympy succeeds on the i-th step.
plan(r, problem, user_id, verify, gout, uout, sympy_ok) ==
    LET built == build_rag_context(r, problem, user_id, gout, uout)
        decomposition == _decompose_problem(problem, built.ctx)
        done == [i \in 1..Len(decomposition) |->
                    VerifyStep(decomposition[i], verify, sympy_ok[i])]
    IN [rag |-> built.rag, hits |-> built.hits,
        out |-> [problem |-> problem, rag_context |-> built.ctx,
                 plan |-> [i \in 1..Len(done) |-> done[i].res]],
        sympy_calls |-> ConcatAll([i \in 1..Len(done) |-> done[i].sympy_calls])]

(***************************************************************************)
(* Bounds and input sets                                                   *)
(***************************************************************************)
MaxRecords == 2

MaxTurns == 3

MaxQueryLen == 3

StringsUpTo(alphabet, n) == UNION {[1..k -> alphabet] : k \in 0..n}

Owners == {"o1", "o2"}

DocTexts == {<<"a">>, <<"a", "B">>}

Queries == {<<"a">>, <<"a", " ", "b">>}

\* the embedder raises, or returns a vector of length 1 or 2
EmbedOutcomes == {Raised, Some(<<1>>), Some(<<1, 0>>), Some(<<3, 4>>)}

\* no filter, or the records of o1 (those of o2 are the other owner's)
OwnerFilters == {None, Some("o1")}

TopKs == {-1, 0, 1, 2}

\* (embedding_fn given, embedding_dim): no embedder; embedder with dimension
\* 2; and, for the append-only runs, embedder without a dimension
StoreConfigs == {<<FALSE, 0>>, <<TRUE, 2>>}

AppendConfigs == StoreConfigs \cup {<<TRUE, 0>>}

NoCall == [op |-> "none"]

NoRag == NewRag(FALSE, 0)

(***************************************************************************)
(* One MemoryStore under add_conversation_turn and query_memory            *)
(***************************************************************************)
InitStoreOf(configs) ==
    /\ \E cfg \in configs : store = NewStore(cfg[1], cfg[2])
    /\ rag = NoRag
    /\ clock = 0
    /\ threads = <<>>
    /\ heap = <<>>
    /\ lg_rag = NoRag
    /\ call = NoCall

InitStore == InitStoreOf(StoreConfigs)

\* add_conversation_turn(convo_id, "user", text) with timestamp=None, on a
\* store of fewer than max records
AddTurnUpTo(max) ==
    /\ call = NoCall
    /\ Len(store.vectors) < max
    /\ \E convo_id \in Owners, text \in DocTexts, outcome \in EmbedOutcomes :
         LET res == add_conversation_turn(store, convo_id, "user", text, clock, outcome)
         IN /\ store.embedding_fn \/ outcome = Raised
            /\ store' = res.store
            /\ call' = [op |-> "add", convo_id |-> convo_id, text |-> text,
                        outcome |-> outcome, before |-> store, error |-> res.error]
    /\ clock' = clock + 1
    /\ UNCHANGED <<rag, threads, heap, lg_rag>>

AddTurn == AddTurnUpTo(MaxRecords)

\* query_memory(query, owner, top_k)
Query ==
    /\ call = NoCall
    /\ \E query \in Queries, owner \in OwnerFilters, top_k \in TopKs,
          outcome \in EmbedOutcomes :
         /\ store.embedding_fn \/ outcome = Raised
         /\ call' = [op |-> "query", query |-> query, owner |-> owner,
                     top_k |-> top_k, outcome |-> outcome,
                     hits |-> query_memory(store, query, owner, top_k, outcome)]
    /\ UNCHANGED <<store, rag, clock, threads, heap, lg_rag>>

\* the caller takes the result; the next call can start
Return ==
    /\ call # NoCall
    /\ call' = NoCall
    /\ UNCHANGED <<store, rag, clock, threads, heap, lg_rag>>

NextStore == AddTurn \/ Query \/ Return

SpecStore == InitStore /\ [][NextStore]_vars

(***************************************************************************)
(* One MemoryStore under add_conversation_turn alone (longer logs)         *)
(***************************************************************************)
AppendTurn == AddTurnUpTo(MaxTurns)

NextAppend == AppendTurn \/ Return

InitAppend == InitStoreOf(AppendConfigs)

SpecAppend == InitAppend /\ [][NextAppend]_vars

(***************************************************************************)
(* The heuristic score as a function of query and text                     *)
(***************************************************************************)
ScoreAlphabet == {"a", "B", " "}

InitScore ==
    /\ store = NewStore(FALSE, 0)
    /\ rag = NoRag
    /\ clock = 0
    /\ threads = <<>>
    /\ heap = <<>>
    /\ lg_rag = NoRag
    /\ \E q \in StringsUpTo(ScoreAlphabet, MaxQueryLen),
          t \in StringsUpTo(ScoreAlphabet, MaxQueryLen) :
         call = [op |-> "input", query |-> q, text |-> t]

Score ==
    /\ call.op = "input"
    /\ call' = [op |-> "score", query |-> call.query, text |-> call.text,
                score |-> HeuristicScore(call.query, call.text)]
    /\ UNCHANGED <<store, rag, clock, threads, heap, lg_rag>>

NextScore == Score

SpecScore == InitScore /\ [][NextScore]_vars

(***************************************************************************)
(* One RAGManager under add_global_document, add_user_document, retrieve   *)
(***************************************************************************)
MaxDocs == 2

Users == {"u1", "u2"}

DocIds == {<<"d">>}

\* the embedder of a manager with embedding_dim 2: it raises or returns a
\* vector, (1, 0) for a document and (3, 4) for a query (cosine 0.6)
DocOutcomes == {Raised, Some(<<1, 0>>)}

QueryOutcomes == {Raised, Some(<<3, 4>>)}

RagConfigs == {<<FALSE, 0>>, <<TRUE, 2>>}

UserArgs == {None} \cup {Some(u) : u \in Users}

\* top_k_global and top_k_user: the defaults (3, 3) and a cut to one hit each
RetrieveTopKs == {<<3, 3>>, <<1, 1>>}

\* the number of documents held by the manager
RagDocs(r) ==
    Len(r.global_store.vectors)
    + Cardinality(UNION {{u} \X (1..Len(r.user_stores[u].st.vectors)) :
                            u \in DOMAIN r.user_stores})

InitRag ==
    /\ store = NewStore(FALSE, 0)
    /\ \E cfg \in RagConfigs : rag = NewRag(cfg[1], cfg[2])
    /\ clock = 0
    /\ threads = <<>>
    /\ heap = <<>>
    /\ lg_rag = NoRag
    /\ call = NoCall

AddGlobalDocument ==
    /\ call = NoCall
    /\ RagDocs(rag) < MaxDocs
    /\ \E doc_id \in DocIds, text \in DocTexts, outcome \in DocOutcomes :
         /\ rag.global_store.embedding_fn \/ outcome = Raised
         /\ rag' = add_global_document(rag, doc_id, text, clock, outcome)
         /\ call' = [op |-> "add_global_document", doc_id |-> doc_id, text |-> text]
    /\ clock' = clock + 1
    /\ UNCHANGED <<store, threads, heap, lg_rag>>

AddUserDocument ==
    /\ call = NoCall
    /\ RagDocs(rag) < MaxDocs
    /\ \E user_id \in Users, doc_id \in DocIds, text \in DocTexts,
          outcome \in DocOutcomes :
         /\ rag.global_store.embedding_fn \/ outcome = Raised
         /\ rag' = add_user_document(rag, user_id, doc_id, text, clock, outcome)
         /\ call' = [op |-> "add_user_document", user_id |-> user_id,
                     doc_id |-> doc_id, text |-> text]
    /\ clock' = clock + 1
    /\ UNCHANGED <<store, threads, heap, lg_rag>>

Retrieve ==
    /\ call = NoCall
    /\ \E query \in Queries, user_id \in UserArgs, ks \in RetrieveTopKs,
          gout \in QueryOutcomes, uout \in QueryOutcomes :
         /\ rag.global_store.embedding_fn \/ (gout = Raised /\ uout = Raised)
         /\ user_id = None => uout = Raised
         /\ \E res \in {retrieve(rag, query, user_id, ks[1], ks[2], gout, uout)} :
              /\ rag' = res.rag
              /\ call' = [op |-> "retrieve", query |-> query, user_id |-> user_id,
                          top_k_global |-> ks[1], top_k_user |-> ks[2],
                          ghits |-> res.ghits, uhits |-> res.uhits,
                          hits |-> res.hits]
    /\ UNCHANGED <<store, clock, threads, heap, lg_rag>>

NextRag == AddGlobalDocument \/ AddUserDocument \/ Retrieve \/ Return

SpecRag == InitRag /\ [][NextRag]_vars

(***************************************************************************)
(* One ReActPlanner under add_domain_doc, add_user_note and plan           *)
(***************************************************************************)
MaxPlanDocs == 1

MaxSteps == 3

Problems ==
    {<<"a">>,
     <<"a", ",", " ", "b">>,
     <<"a", " ", "1", ",", "b", ".", " ", "a">>}

\* ReActPlanner.__init__: self.rag = RAGManager(embedding_fn, embedding_dim)
InitPlan ==
    /\ store = NewStore(FALSE, 0)
    /\ \E cfg \in RagConfigs : rag = NewRag(cfg[1], cfg[2])
    /\ clock = 0
    /\ threads = <<>>
    /\ heap = <<>>
    /\ lg_rag = NoRag
    /\ call = NoCall

\* add_domain_doc
AddDomainDoc ==
    /\ call = NoCall
    /\ RagDocs(rag) < MaxPlanDocs
    /\ \E doc_id \in DocIds, text \in DocTexts, outcome \in DocOutcomes :
         /\ rag.global_store.embedding_fn \/ outcome = Raised
         /\ rag' = add_global_document(rag, doc_id, text, clock, outcome)
         /\ call' = [op |-> "add_domain_doc", doc_id |-> doc_id, text |-> text]
    /\ clock' = clock + 1
    /\ UNCHANGED <<store, threads, heap, lg_rag>>

\* add_user_note
AddUserNote ==
    /\ call = NoCall
    /\ RagDocs(rag) < MaxPlanDocs
    /\ \E user_id \in Users, doc_id \in DocIds, text \in DocTexts,
          outcome \in DocOutcomes :
         /\ rag.global_store.embedding_fn \/ outcome = Raised
         /\ rag' = add_user_document(rag, user_id, doc_id, text, clock, outcome)
         /\ call' = [op |-> "add_user_note", user_id |-> user_id,
                     doc_id |-> doc_id, text |-> text]
    /\ clock' = clock + 1
    /\ UNCHANGED <<store, threads, heap, lg_rag>>

\* plan(problem, user_id, verify)
Plan ==
    /\ call = NoCall
    /\ \E problem \in Problems, user_id \in UserArgs, verify \in BOOLEAN,
          gout \in QueryOutcomes, uout \in QueryOutcomes,
          sympy_ok \in [1..MaxSteps -> BOOLEAN] :
         /\ rag.global_store.embedding_fn \/ (gout = Raised /\ uout = Raised)
         /\ user_id = None => uout = Raised
         /\ \E res \in {plan(rag, problem, user_id, verify, gout, uout, sympy_ok)} :
              /\ \A i \in 1..MaxSteps :
                   (~verify \/ i > Len(res.out.plan)) => sympy_ok[i]
              /\ rag' = res.rag
              /\ call' = [op |-> "plan", problem |-> problem, user_id |-> user_id,
                          verify |-> verify, sympy_ok |-> sympy_ok,
                          hits |-> res.hits, out |-> res.out,
                          sympy_calls |-> res.sympy_calls]
    /\ UNCHANGED <<store, clock, threads, heap, lg_rag>>

NextPlan == AddDomainDoc \/ AddUserNote \/ Plan \/ Return

SpecPlan == InitPlan /\ [][NextPlan]_vars

(***************************************************************************)
(* Claims about MemoryStore                                                *)
(***************************************************************************)
\* the score the last query gave the i-th record of the store
QScore(i) ==
    RecordScore(call.query, QueryEmbedding(store, call.outcome), store.vectors[i])

\* the records the last query may return: owner matches and score > 0
QMatching ==
    {i \in 1..Len(store.vectors) :
        OwnerMatches(call.owner, store.vectors[i]) /\ ScorePositive(QScore(i))}

\* how many matching records go before record i: a higher score, or the same
\* score and inserted earlier
QRank(i) ==
    Cardinality({j \in QMatching :
                    \/ ScoreGT(QScore(j), QScore(i))
                    \/ ScoreEq(QScore(j), QScore(i)) /\ j < i})

\* C2: with top_k >= 0, query_memory returns exactly the first top_k of the
\* records that match the owner filter and score > 0, by score descending,
\* equal scores in insertion order; nothing else is returned.
C2_QueryTopK ==
    (call.op = "query" /\ call.top_k >= 0) =>
        /\ Len(call.hits) = Min(call.top_k, Cardinality(QMatching))
        /\ \A n \in 1..Len(call.hits) :
             \E i \in QMatching :
                /\ QRank(i) = n - 1
                /\ call.hits[n] = Hit(store.vectors[i], QScore(i))

\* a query with an owner filter that cut two equal-score matches down to the
\* earlier one
C2_Witness ==
    /\ call.op = "query"
    /\ call.top_k = 1
    /\ call.owner # None
    /\ Len(call.hits) = 1
    /\ \E i, j \in QMatching : i < j /\ ScoreEq(QScore(i), QScore(j))
                                /\ call.hits[1].id = store.vectors[i].id

\* a query that put a later, higher-scored record before an earlier one
C2_WitnessReorder ==
    /\ call.op = "query"
    /\ Len(call.hits) = 2
    /\ \E i, j \in QMatching : i < j /\ ScoreGT(QScore(j), QScore(i))

\* C5: add_conversation_turn raises no error and appends exactly one record
\* whatever the embedder does; the record has an embedding only if the
\* embedder returned a vector, of the configured dimension when one is
\* configured; the records stored before are unchanged.
C5_AddRecoversEmbedder ==
    call.op = "add" =>
        LET n == Len(call.before.vectors)
            new == store.vectors[n + 1]
            dim == call.before.embedding_dim
        IN /\ call.error = FALSE
           /\ Len(store.vectors) = n + 1
           /\ SubSeq(store.vectors, 1, n) = call.before.vectors
           /\ new.text = call.text /\ new.owner = call.convo_id
           /\ new.emb # None =>
                /\ call.outcome # Raised
                /\ new.emb = call.outcome
                /\ dim # 0 => Len(call.outcome[1]) = dim
           /\ (dim # 0 /\ call.outcome # Raised /\ Len(call.outcome[1]) = dim)
                => new.emb = call.outcome

\* a vector of the wrong length was discarded while an earlier record keeps
\* its embedding
C5_Witness ==
    /\ call.op = "add"
    /\ call.before.embedding_dim # 0
    /\ call.outcome # Raised
    /\ Len(call.outcome[1]) # call.before.embedding_dim
    /\ store.vectors[Len(store.vectors)].emb = None
    /\ \E i \in 1..Len(call.before.vectors) : store.vectors[i].emb # None

\* the n-th record of its owner, counting from 0
OwnerPosition(i) ==
    Cardinality({j \in 1..(i - 1) : store.vectors[j].owner = store.vectors[i].owner})

\* C9: after any sequential series of adds, the n-th record of an owner has
\* sequence number n in its id, and no two records of an owner share an id.
C9_PerOwnerSequence ==
    /\ \A i \in 1..Len(store.vectors) :
         store.vectors[i].id = TurnId(store.vectors[i].owner, OwnerPosition(i))
    /\ \A i, j \in 1..Len(store.vectors) :
         (i # j /\ store.vectors[i].owner = store.vectors[j].owner)
            => store.vectors[i].id # store.vectors[j].id

\* owners interleaved: o1, o2, o1
C9_Witness ==
    /\ Len(store.vectors) = 3
    /\ store.vectors[1].owner = store.vectors[3].owner
    /\ store.vectors[2].owner # store.vectors[1].owner
    /\ store.vectors[3].id[3] = 1

\* C7 (as claimed): when the embedder returns a query vector of the wrong
\* length on a store with a dimension, the result is the one the same store
\* gives with no embedder.
C7_MismatchedQueryIsAbsent ==
    (/\ call.op = "query"
     /\ store.embedding_fn /\ store.embedding_dim # 0
     /\ call.outcome # Raised
     /\ Len(call.outcome[1]) # store.embedding_dim)
    => call.hits = query_memory([store EXCEPT !.embedding_fn = FALSE],
                                call.query, call.owner, call.top_k, Raised)

\* C8 (as claimed): a negative top_k returns no hit.
C8_NegativeTopKIsEmpty ==
    (call.op = "query" /\ call.top_k < 0) => call.hits = <<>>

\* C6 (as claimed): the heuristic score is 1.0 when the lowercased query is in
\* the lowercased text, else 0.1 x (distinct query words in the text) /
\* (distinct query words).
C6_HeuristicDistinctWords ==
    call.op = "score" =>
        LET q == Lower(call.query)
            t == Lower(call.text)
            words == Range(Split(q))
            present == {w \in words : IsSubstring(w, t)}
        IN IF IsSubstring(q, t)
           THEN ScoreEq(call.score, ScoreOne)
           ELSE call.score.num * 10 * Cardinality(words)
                    = Cardinality(present) * call.score.den

IsPrefix(s, t) == Len(s) <= Len(t) /\ SubSeq(t, 1, Len(s)) = s

\* C10: the store created for a user id is kept for every later call: it is
\* never replaced or removed and loses no record; add_user_document appends
\* its document to it, and retrieve for that user queries it.
C10_UserStoreKept ==
    [][/\ \A u \in DOMAIN rag.user_stores :
            /\ u \in DOMAIN rag'.user_stores
            /\ rag'.user_stores[u].obj = rag.user_stores[u].obj
            /\ IsPrefix(rag.user_stores[u].st.vectors, rag'.user_stores[u].st.vectors)
       /\ call'.op = "add_user_document" =>
            LET u == call'.user_id
                old == IF u \in DOMAIN rag.user_stores
                       THEN rag.user_stores[u].st.vectors ELSE <<>>
                new == rag'.user_stores[u].st.vectors
            IN /\ Len(new) = Len(old) + 1
               /\ new[Len(new)].text = DocText(call'.doc_id, call'.text)
       /\ (call'.op = "retrieve" /\ call'.user_id # None) =>
            LET u == call'.user_id[1]
            IN /\ u \in DOMAIN rag.user_stores =>
                    rag'.user_stores[u] = rag.user_stores[u]
               /\ \E uout \in QueryOutcomes :
                    call'.uhits =
                        Tagged(query_memory(rag'.user_stores[u].st, call'.query,
                                            Some(UserOwner(u)), call'.top_k_user,
                                            uout), "user")
      ]_vars

\* two documents added for one user are records of the store created by the
\* first add, and both are hits of a retrieve for that user
C10_Witness ==
    /\ call.op = "retrieve"
    /\ call.user_id # None
    /\ call.user_id[1] \in DOMAIN rag.user_stores
    /\ rag.user_stores[call.user_id[1]].obj = 2
    /\ Len(rag.user_stores[call.user_id[1]].st.vectors) = 2
    /\ Len(call.uhits) = 2

(***************************************************************************)
(* Claims about ReActPlanner                                               *)
(***************************************************************************)
\* the steps plan() works on: the decomposition of its problem and context
PlanSteps == _decompose_problem(call.problem, call.out.rag_context)

\* C3 (as claimed): with verify=true the verifier is called once per step in
\* step order, the plan has one entry per step in order, a step whose
\* verification succeeds gets {tool, result} and a step whose verification
\* fails gets {tool, error} and not {tool, result}.
C3_FailedStepGetsError ==
    (call.op = "plan" /\ call.verify) =>
        /\ call.sympy_calls = PlanSteps
        /\ Len(call.out.plan) = Len(PlanSteps)
        /\ \A i \in 1..Len(PlanSteps) :
             /\ call.out.plan[i].step = PlanSteps[i]
             /\ call.out.plan[i].verification # None
             /\ IF call.sympy_ok[i]
                THEN DOMAIN call.out.plan[i].verification[1] = {"tool", "result"}
                ELSE DOMAIN call.out.plan[i].verification[1] = {"tool", "error"}

\* C4: with verify=false plan() makes no call to the verifier and every step
\* of the returned plan, one per decomposed step, has no verification.
C4_NoVerifyNoCalls ==
    (call.op = "plan" /\ ~call.verify) =>
        /\ call.sympy_calls = <<>>
        /\ Len(call.out.plan) = Len(PlanSteps)
        /\ \A i \in 1..Len(call.out.plan) :
             /\ call.out.plan[i].step = PlanSteps[i]
             /\ call.out.plan[i].verification = None

\* an unverified plan of three steps, the first one the retrieval context
C4_Witness ==
    /\ call.op = "plan"
    /\ ~call.verify
    /\ call.out.rag_context # <<>>
    /\ Len(call.out.plan) = 3

(***************************************************************************)
(* RAGManager under two concurrent calls (threads of one server process).  *)
(* rag.py takes no lock, so the steps of _get_user_store and the append or *)
(* query that follows it interleave freely between the threads.  rag holds *)
(* the manager; heap holds the MemoryStore objects that are not (or no     *)
(* longer) values of rag.user_stores but are still referenced by a thread; *)
(* threads[t] holds the position and the local variables of thread t.      *)
(***************************************************************************)
Threads == {"t1", "t2"}

IdleThread ==
    [pc |-> "idle", op |-> "none", user_id |-> "", text |-> <<>>, new |-> 0,
     store |-> 0, installed |-> FALSE, timestamp |-> -1, hits |-> <<>>]

\* whether the object is the value of some key of self.user_stores
InMap(r, obj) == \E u \in DOMAIN r.user_stores : r.user_stores[u].obj = obj

\* the MemoryStore a reference points to
Deref(r, h, obj) ==
    IF InMap(r, obj)
    THEN r.user_stores[CHOOSE u \in DOMAIN r.user_stores :
                           r.user_stores[u].obj = obj].st
    ELSE h[obj]

\* the heap without one object
Without(h, obj) == [o \in DOMAIN h \ {obj} |-> h[o]]

\* the heap with one more object
With(h, obj, st) == [o \in DOMAIN h \cup {obj} |-> IF o = obj THEN st ELSE h[o]]

\* line 49, the assignment self.user_stores[user_id] = <new object>: the
\* manager and the heap afterwards; the object that was the value before, if
\* any, is no longer reachable from the map
AssignUserStore(r, h, user_id, obj) ==
    LET displaced == IF user_id \in DOMAIN r.user_stores
                     THEN With(<<>>, r.user_stores[user_id].obj,
                               r.user_stores[user_id].st)
                     ELSE <<>>
        rest == Without(h, obj)
    IN [rag |-> [r EXCEPT !.user_stores =
                     [u \in DOMAIN r.user_stores \cup {user_id} |->
                         IF u = user_id THEN [obj |-> obj, st |-> h[obj]]
                         ELSE r.user_stores[u]]],
        heap |-> [o \in DOMAIN rest \cup DOMAIN displaced |->
                     IF o \in DOMAIN displaced THEN displaced[o] ELSE rest[o]]]

\* a method call on the MemoryStore a reference points to, leaving the object
\* in state st: the manager and the heap afterwards
UpdateObject(r, h, obj, st) ==
    IF InMap(r, obj)
    THEN [rag |-> [r EXCEPT !.user_stores =
                      [u \in DOMAIN r.user_stores |->
                          IF r.user_stores[u].obj = obj
                          THEN [obj |-> obj, st |-> st]
                          ELSE r.user_stores[u]]],
          heap |-> h]
    ELSE [rag |-> r, heap |-> With(h, obj, st)]

InitRagConc ==
    /\ store = NewStore(FALSE, 0)
    /\ \E cfg \in RagConfigs : rag = NewRag(cfg[1], cfg[2])
    /\ clock = 0
    /\ threads = [t \in Threads |-> IdleThread]
    /\ heap = <<>>
    /\ lg_rag = NoRag
    /\ call = NoCall

\* a thread enters add_user_document(user_id, doc_id, text)
StartAddUserDocument ==
    \E t \in Threads, user_id \in Users, doc_id \in DocIds, text \in DocTexts :
      /\ threads[t].pc = "idle"
      /\ threads' = [threads EXCEPT ![t] =
                        [@ EXCEPT !.pc = "test", !.op = "add_user_document",
                                  !.user_id = user_id,
                                  !.text = DocText(doc_id, text)]]
      /\ UNCHANGED <<store, rag, clock, call, heap, lg_rag>>

\* a thread enters retrieve(query, user_id) and has queried the global store
\* (lines 62-65)
StartRetrieve ==
    \E t \in Threads, user_id \in Users, query \in Queries,
       gout \in QueryOutcomes :
      /\ threads[t].pc = "idle"
      /\ rag.global_store.embedding_fn \/ gout = Raised
      /\ threads' = [threads EXCEPT ![t] =
                        [@ EXCEPT !.pc = "test", !.op = "retrieve",
                                  !.user_id = user_id, !.text = query,
                                  !.hits = Tagged(query_memory(rag.global_store,
                                                     query, Some(GlobalOwner),
                                                     3, gout), "global")]]
      /\ UNCHANGED <<store, rag, clock, call, heap, lg_rag>>

\* line 48: if user_id not in self.user_stores
TestUserStore ==
    \E t \in Threads :
      /\ threads[t].pc = "test"
      /\ threads' = [threads EXCEPT ![t].pc =
                        IF threads[t].user_id \notin DOMAIN rag.user_stores
                        THEN "construct" ELSE "read"]
      /\ UNCHANGED <<store, rag, clock, call, heap, lg_rag>>

\* line 49, right-hand side: MemoryStore(embedding_fn=..., embedding_dim=...)
ConstructUserStore ==
    \E t \in Threads :
      /\ threads[t].pc = "construct"
      /\ heap' = With(heap, rag.objects + 1,
                      NewStore(rag.global_store.embedding_fn,
                               rag.global_store.embedding_dim))
      /\ rag' = [rag EXCEPT !.objects = rag.objects + 1]
      /\ threads' = [threads EXCEPT ![t] =
                        [@ EXCEPT !.pc = "assign", !.new = rag.objects + 1]]
      /\ UNCHANGED <<store, clock, call, lg_rag>>

\* line 49, the assignment
InstallUserStore ==
    \E t \in Threads :
      /\ threads[t].pc = "assign"
      /\ \E res \in {AssignUserStore(rag, heap, threads[t].user_id,
                                     threads[t].new)} :
           /\ rag' = res.rag
           /\ heap' = res.heap
      /\ threads' = [threads EXCEPT ![t] =
                        [@ EXCEPT !.pc = "read", !.installed = TRUE]]
      /\ UNCHANGED <<store, clock, call, lg_rag>>

\* line 50: return self.user_stores[user_id]
ReadUserStore ==
    \E t \in Threads :
      /\ threads[t].pc = "read"
      /\ threads' = [threads EXCEPT ![t] =
                        [@ EXCEPT !.pc = IF threads[t].op = "retrieve"
                                         THEN "query" ELSE "append",
                                  !.store = rag.user_stores[threads[t].user_id].obj]]
      /\ UNCHANGED <<store, rag, clock, call, heap, lg_rag>>

\* line 58: store.add_conversation_turn(f'user:{user_id}', 'system', ...)
AppendUserDocument ==
    \E t \in Threads, outcome \in DocOutcomes :
      /\ threads[t].pc = "append"
      /\ rag.global_store.embedding_fn \/ outcome = Raised
      /\ \E res \in {UpdateObject(rag, heap, threads[t].store,
                        add_conversation_turn(
                            Deref(rag, heap, threads[t].store),
                            UserOwner(threads[t].user_id), "system",
                            threads[t].text, clock, outcome).store)} :
           /\ rag' = res.rag
           /\ heap' = res.heap
      /\ clock' = clock + 1
      /\ threads' = [threads EXCEPT ![t] =
                        [@ EXCEPT !.pc = "done", !.timestamp = clock]]
      /\ UNCHANGED <<store, call, lg_rag>>

\* lines 67-72 and the merge of lines 74-89
QueryUserStore ==
    \E t \in Threads, uout \in QueryOutcomes :
      /\ threads[t].pc = "query"
      /\ rag.global_store.embedding_fn \/ uout = Raised
      /\ threads' = [threads EXCEPT ![t] =
                        [@ EXCEPT !.pc = "done",
                                  !.hits = DedupByText(SortByScoreDesc(
                                     MergeResults(threads[t].hits,
                                       Tagged(query_memory(
                                         Deref(rag, heap, threads[t].store),
                                         threads[t].text,
                                         Some(UserOwner(threads[t].user_id)),
                                         3, uout), "user"))), {})]]
      /\ UNCHANGED <<store, rag, clock, call, heap, lg_rag>>

NextRagConc ==
    \/ StartAddUserDocument
    \/ StartRetrieve
    \/ TestUserStore
    \/ ConstructUserStore
    \/ InstallUserStore
    \/ ReadUserStore
    \/ AppendUserDocument
    \/ QueryUserStore

SpecRagConc == InitRagConc /\ [][NextRagConc]_vars

\* the threads that have completed add_user_document for the user
Adders(u) ==
    {t \in Threads : /\ threads[t].op = "add_user_document"
                     /\ threads[t].user_id = u
                     /\ threads[t].pc = "done"}

\* the threads that have assigned a store to the user's key
Installers(u) ==
    {t \in Threads : threads[t].user_id = u /\ threads[t].installed}

\* whether the document the thread added is in the store the map holds for
\* the user
DocumentKept(t) ==
    /\ threads[t].user_id \in DOMAIN rag.user_stores
    /\ \E i \in 1..Len(rag.user_stores[threads[t].user_id].st.vectors) :
         LET rec == rag.user_stores[threads[t].user_id].st.vectors[i]
         IN rec.timestamp = threads[t].timestamp /\ rec.text = threads[t].text

\* C11: when two calls that need the store of the same unseen user run with
\* their steps interleaved, at most one store is ever installed for the user
\* and every document added is in the store that the map holds afterwards.
C11_OneStoreNoLoss ==
    \A u \in Users :
      /\ Cardinality(Installers(u)) <= 1
      /\ \A t \in Adders(u) : DocumentKept(t)

(***************************************************************************)
(* MemoryStore under two concurrent add_conversation_turn calls.           *)
(* memory.py takes no lock, so the statements of the method interleave     *)
(* between the threads: the append to the owner's history (line 55), the   *)
(* embedding (lines 57-65), the read of the history length that forms the  *)
(* id and the append to the vector index (both line 67).                   *)
(***************************************************************************)
IdleAppender ==
    [pc |-> "idle", convo_id |-> "", text |-> <<>>, timestamp |-> -1,
     emb |-> None, seq |-> -1]

InitStoreConc ==
    /\ \E cfg \in AppendConfigs : store = NewStore(cfg[1], cfg[2])
    /\ rag = NoRag
    /\ clock = 0
    /\ threads = [t \in Threads |-> IdleAppender]
    /\ heap = <<>>
    /\ lg_rag = NoRag
    /\ call = NoCall

\* lines 52-55: the timestamp, the turn and its append to the owner's history
AppendTurnToHistory ==
    \E t \in Threads, convo_id \in Owners, text \in DocTexts :
      /\ threads[t].pc = "idle"
      /\ LET turn == [role |-> "user", text |-> text, timestamp |-> clock]
             hist == Append(Conversation(store, convo_id), turn)
         IN store' = [store EXCEPT !.conversations =
                         [c \in DOMAIN store.conversations \cup {convo_id} |->
                             IF c = convo_id THEN hist
                             ELSE store.conversations[c]]]
      /\ clock' = clock + 1
      /\ threads' = [threads EXCEPT ![t] =
                        [@ EXCEPT !.pc = "embed", !.convo_id = convo_id,
                                  !.text = text, !.timestamp = clock]]
      /\ UNCHANGED <<rag, call, heap, lg_rag>>

\* lines 57-65: the embedding of the text
ComputeEmbedding ==
    \E t \in Threads, outcome \in EmbedOutcomes :
      /\ threads[t].pc = "embed"
      /\ store.embedding_fn \/ outcome = Raised
      /\ threads' = [threads EXCEPT ![t] =
                        [@ EXCEPT !.pc = "read_len",
                                  !.emb = StoredEmbedding(store, outcome)]]
      /\ UNCHANGED <<store, rag, clock, call, heap, lg_rag>>

\* line 67, the argument: len(self.conversations[convo_id]) - 1
ReadHistoryLength ==
    \E t \in Threads :
      /\ threads[t].pc = "read_len"
      /\ threads' = [threads EXCEPT ![t] =
                        [@ EXCEPT !.pc = "index",
                                  !.seq = TurnSeq(store,
                                      Conversation(store, threads[t].convo_id))]]
      /\ UNCHANGED <<store, rag, clock, call, heap, lg_rag>>

\* line 67, the call: self.vectors.append((id, convo_id, text, emb, timestamp))
AppendToIndex ==
    \E t \in Threads :
      /\ threads[t].pc = "index"
      /\ store' = [store EXCEPT !.vectors =
                      Append(store.vectors,
                             [id |-> TurnId(threads[t].convo_id, threads[t].seq),
                              owner |-> threads[t].convo_id,
                              text |-> threads[t].text, emb |-> threads[t].emb,
                              timestamp |-> threads[t].timestamp])]
      /\ threads' = [threads EXCEPT ![t].pc = "done"]
      /\ UNCHANGED <<rag, clock, call, heap, lg_rag>>

NextStoreConc ==
    \/ AppendTurnToHistory
    \/ ComputeEmbedding
    \/ ReadHistoryLength
    \/ AppendToIndex

SpecStoreConc == InitStoreConc /\ [][NextStoreConc]_vars

\* the zero-based position, in its owner's history, of the turn the thread
\* appended
OwnTurnPosition(t) ==
    LET hist == Conversation(store, threads[t].convo_id)
    IN (CHOOSE k \in 1..Len(hist) : hist[k].timestamp = threads[t].timestamp) - 1

\* the record the thread appended to the vector index
OwnRecord(t) ==
    store.vectors[CHOOSE i \in 1..Len(store.vectors) :
                      store.vectors[i].timestamp = threads[t].timestamp]

\* C12: when two add_conversation_turn calls for the same owner run with their
\* steps interleaved, the two records get distinct ids, each carrying the
\* position of its own turn in the owner's history.
C12_DistinctIdsOwnPosition ==
    /\ \A t \in Threads :
         threads[t].pc = "done" =>
           OwnRecord(t).id = TurnId(threads[t].convo_id, OwnTurnPosition(t))
    /\ \A i, j \in 1..Len(store.vectors) :
         i # j => store.vectors[i].id # store.vectors[j].id

(***************************************************************************)
(* The decomposition as a function of the problem text                     *)
(***************************************************************************)
MaxProblemLen == 5

DecomposeAlphabet == {"a", "1", ",", ".", " "}

\* "Solve x+2=5 for x."
ExampleEquation ==
    <<"S", "o", "l", "v", "e", " ", "x", "+", "2", "=", "5", " ", "f",
      "o", "r", " ", "x", ".">>

\* "Find area, then find perimeter"
ExampleArea ==
    <<"F", "i", "n", "d", " ", "a", "r", "e", "a", ",", " ", "t", "h",
      "e", "n", " ", "f", "i", "n", "d", " ", "p", "e", "r", "i", "m",
      "e", "t", "e", "r">>

\* "a,1.  a, b? (a,b)! a"
ExampleMixed ==
    <<"a", ",", "1", ".", " ", " ", "a", ",", " ", "b", "?", " ", "(",
      "a", ",", "b", ")", "!", " ", "a">>

DecomposeProblems ==
    StringsUpTo(DecomposeAlphabet, MaxProblemLen)
        \cup {ExampleEquation, ExampleArea, ExampleMixed}

InitDecompose ==
    /\ store = NewStore(FALSE, 0)
    /\ rag = NoRag
    /\ clock = 0
    /\ threads = <<>>
    /\ heap = <<>>
    /\ lg_rag = NoRag
    /\ \E problem \in DecomposeProblems :
         call = [op |-> "input", problem |-> problem]

\* self._decompose_problem(problem, "")
Decompose ==
    /\ call.op = "input"
    /\ call' = [op |-> "decompose", problem |-> call.problem,
                steps |-> _decompose_problem(call.problem, <<>>)]
    /\ UNCHANGED <<store, rag, clock, threads, heap, lg_rag>>

NextDecompose == Decompose

SpecDecompose == InitDecompose /\ [][NextDecompose]_vars

\* the k-th smallest element of a set of numbers
NthSmallest(S, k) == CHOOSE x \in S : Cardinality({y \in S : y < x}) = k - 1

\* the pieces of s between the cuts: cuts is a set of disjoint index ranges
\* <<first, last>> of s
PiecesBetween(s, cuts) ==
    LET n == Cardinality(cuts)
        firsts == {c[1] : c \in cuts}
        lasts == {c[2] : c \in cuts}
    IN [k \in 1..(n + 1) |->
           SubSeq(s,
                  IF k = 1 THEN 1 ELSE NthSmallest(lasts, k - 1) + 1,
                  IF k = n + 1 THEN Len(s) ELSE NthSmallest(firsts, k) - 1)]

\* the sentence boundaries of a problem: every maximal run of whitespace that
\* starts right after ".", "?" or "!"
SentenceCuts(p) ==
    {<<i, j>> \in (1..Len(p)) \X (1..Len(p)) :
        /\ i > 1 /\ i <= j
        /\ p[i - 1] \in SentenceEnd
        /\ \A m \in i..j : p[m] \in Whitespace
        /\ (j < Len(p) => p[j + 1] \notin Whitespace)}

Sentences(p) == PiecesBetween(p, SentenceCuts(p))

CommaCuts(s) == {<<i, i>> : i \in {m \in 1..Len(s) : s[m] = ","}}

\* a sequence without its empty elements
NonEmptyOnly(seq) == SelectSeq(seq, LAMBDA x : x # <<>>)

\* the steps the decomposition rules give for one sentence
StepsClaimed(sentence) ==
    LET s == Strip(sentence)
        parts == PiecesBetween(s, CommaCuts(s))
    IN IF s = <<>>
       THEN <<>>
       ELSE IF Range(s) \cap MathChars # {}
            THEN <<s>>
            ELSE NonEmptyOnly([k \in 1..Len(parts) |-> Strip(parts[k])])

\* the steps the decomposition rules give for a problem, in sentence order
DecompositionClaimed(p) ==
    ConcatAll([k \in 1..Len(Sentences(p)) |-> StepsClaimed(Sentences(p)[k])])

\* C13: the decomposition keeps every non-empty trimmed sentence with a digit
\* or one of = + - * / ^ ( ) as one step even if it has commas, splits every
\* other sentence at its commas into the non-empty trimmed parts (a sentence
\* without comma stays whole), and emits the steps in sentence order; the two
\* examples give one step and the steps "Find area", "then find perimeter".
C13_DecompositionRules ==
    call.op = "decompose" =>
        /\ call.steps = DecompositionClaimed(call.problem)
        /\ call.problem = ExampleEquation => call.steps = <<ExampleEquation>>
        /\ call.problem = ExampleArea =>
             call.steps = <<SubSeq(ExampleArea, 1, 9), SubSeq(ExampleArea, 12, 30)>>

\* an equation with a comma is kept whole next to a sentence that is split at
\* its comma
C13_Witness ==
    /\ call.op = "decompose"
    /\ call.problem = ExampleMixed
    /\ call.steps = <<SubSeq(ExampleMixed, 1, 4), <<"a">>, <<"b", "?">>,
                      SubSeq(ExampleMixed, 13, 18), <<"a">>>>

(***************************************************************************)
(* Claims about the retrieval context of a plan                            *)
(***************************************************************************)
\* the step texts of the returned plan
StepTexts == [i \in 1..Len(call.out.plan) |-> call.out.plan[i].step]

\* "Consult relevant formulas and proofs: " + ragContext with every newline
\* replaced by " | "
SyntheticStep(ctx) ==
    <<"Consult relevant formulas and proofs: ">>
    \o [i \in 1..Len(ctx) |-> IF ctx[i] = "\n" THEN " | " ELSE ctx[i]]

\* C14: after any document additions, the plan starts with the synthetic step
\* built from ragContext exactly when ragContext is non-empty, which is
\* exactly when the retrieval for the problem and user has a hit; the steps
\* after it (all steps when ragContext is empty) are the decomposition of the
\* problem in order.
C14_SyntheticStepIffContext ==
    call.op = "plan" =>
        LET ctx == call.out.rag_context
            synthetic == SyntheticStep(ctx)
        IN /\ (ctx # <<>>) <=> (call.hits # <<>>)
           /\ (ctx # <<>>) <=> (StepTexts # <<>> /\ StepTexts[1] = synthetic)
           /\ StepTexts = (IF ctx # <<>> THEN <<synthetic>> ELSE <<>>)
                              \o DecompositionClaimed(call.problem)

\* a plan whose retrieval has a hit: the synthetic step and two decomposed
\* steps
C14_Witness ==
    /\ call.op = "plan"
    /\ call.hits # <<>>
    /\ Len(StepTexts) = 3
    /\ StepTexts[1] = SyntheticStep(call.out.rag_context)

\* a plan over a manager that holds a document the retrieval does not return:
\* no synthetic step
C14_WitnessNoHit ==
    /\ call.op = "plan"
    /\ RagDocs(rag) > 0
    /\ call.hits = <<>>
    /\ StepTexts = DecompositionClaimed(call.problem)
    /\ StepTexts # <<>>

(***************************************************************************)
(* Tenant isolation                                                        *)
(***************************************************************************)
\* whether the hit is a record of the store: same timestamp (one per added
\* document), owner and text
HitOf(hit, st) ==
    \E i \in 1..Len(st.vectors) :
        /\ st.vectors[i].timestamp = hit.timestamp
        /\ st.vectors[i].owner = hit.owner
        /\ st.vectors[i].text = hit.text

\* the documents added for a user carry the user's owner key and are the
\* records of the user's store; the global documents carry the key 'global'
OwnersRecorded ==
    /\ \A i \in 1..Len(rag.global_store.vectors) :
         rag.global_store.vectors[i].owner = GlobalOwner
    /\ \A u \in DOMAIN rag.user_stores :
         \A i \in 1..Len(rag.user_stores[u].st.vectors) :
             rag.user_stores[u].st.vectors[i].owner = UserOwner(u)

\* C15: after any additions, retrieve for user A returns only global
\* documents and documents added for A, never a document added for another
\* user, and retrieve with no user returns only hits with source "global".
C15_TenantIsolation ==
    /\ OwnersRecorded
    /\ call.op = "retrieve" =>
         \A n \in 1..Len(call.hits) :
             LET hit == call.hits[n]
             IN /\ \/ /\ hit.source = "global"
                      /\ hit.owner = GlobalOwner
                      /\ HitOf(hit, rag.global_store)
                   \/ /\ call.user_id # None
                      /\ hit.source = "user"
                      /\ hit.owner = UserOwner(call.user_id[1])
                      /\ HitOf(hit, rag.user_stores[call.user_id[1]].st)
                /\ \A b \in DOMAIN rag.user_stores :
                     call.user_id # Some(b) => ~HitOf(hit, rag.user_stores[b].st)
                /\ call.user_id = None => hit.source = "global"

\* retrieve for one user returns that user's document while another user
\* holds a document with the same text
C15_Witness ==
    /\ call.op = "retrieve"
    /\ call.user_id # None
    /\ \E n \in 1..Len(call.hits) :
         /\ call.hits[n].source = "user"
         /\ \E b \in DOMAIN rag.user_stores :
              /\ call.user_id # Some(b)
              /\ \E i \in 1..Len(rag.user_stores[b].st.vectors) :
                   rag.user_stores[b].st.vectors[i].text = call.hits[n].text

\* retrieve with no user over a manager that holds a matching user document
C15_WitnessNoUser ==
    /\ call.op = "retrieve"
    /\ call.user_id = None
    /\ call.hits # <<>>
    /\ \E b \in DOMAIN rag.user_stores :
         \E i \in 1..Len(rag.user_stores[b].st.vectors) :
             IsSubstring(Lower(call.query), Lower(rag.user_stores[b].st.vectors[i].text))

(***************************************************************************)
(* LangGraphSystem (src/workflow/graph.py).  lg_rag is self.rag, rag is    *)
(* self.planner.rag (ReActPlanner.__init__ constructs its own RAGManager)  *)
(* and store is self.memory.                                               *)
(***************************************************************************)
MaxIngested == 2

IngestDocIds == {<<"d">>, <<"e">>}

\* the docs argument: a dict of at most two entries, as the sequence of its
\* (doc_id, text) items in iteration order
IngestDicts ==
    {<<>>}
    \cup {<<<<id, text>>>> : id \in IngestDocIds, text \in DocTexts}
    \cup {<<<<ids[1], text1>>, <<ids[2], text2>>>> :
             ids \in {p \in IngestDocIds \X IngestDocIds : p[1] # p[2]},
             text1 \in DocTexts, text2 \in DocTexts}

\* ingest_domain_docs: self.rag after the loop; the i-th document is added at
\* time timestamp + i - 1 and outcomes[i] is what the embedder does on it
RECURSIVE ingest_domain_docs(_, _, _, _)
ingest_domain_docs(r, docs, timestamp, outcomes) ==
    IF docs = <<>>
    THEN r
    ELSE ingest_domain_docs(
             add_global_document(r, Head(docs)[1], Head(docs)[2], timestamp,
                                 Head(outcomes)),
             Tail(docs), timestamp + 1, Tail(outcomes))

\* solve: self.planner.plan(problem, user_id=user_id, verify=verify), on the
\* planner's own manager
solve(planner_rag, problem, user_id, verify, gout, uout, sympy_ok) ==
    plan(planner_rag, problem, user_id, verify, gout, uout, sympy_ok)

\* LangGraphSystem.__init__
InitSystem ==
    /\ \E cfg \in RagConfigs :
         /\ lg_rag = NewRag(cfg[1], cfg[2])
         /\ store = NewStore(cfg[1], cfg[2])
         /\ rag = NewRag(cfg[1], cfg[2])
    /\ clock = 0
    /\ threads = <<>>
    /\ heap = <<>>
    /\ call = NoCall

IngestDomainDocs ==
    /\ call = NoCall
    /\ \E docs \in IngestDicts :
         /\ Len(lg_rag.global_store.vectors) + Len(docs) <= MaxIngested
         /\ \E outcomes \in [1..Len(docs) -> DocOutcomes] :
              /\ lg_rag.global_store.embedding_fn
                    \/ \A i \in 1..Len(docs) : outcomes[i] = Raised
              /\ lg_rag' = ingest_domain_docs(lg_rag, docs, clock, outcomes)
         /\ clock' = clock + Len(docs)
         /\ call' = [op |-> "ingest_domain_docs", docs |-> docs]
    /\ UNCHANGED <<store, rag, threads, heap>>

Solve ==
    /\ call = NoCall
    /\ \E problem \in Problems, user_id \in UserArgs, verify \in BOOLEAN,
          gout \in QueryOutcomes, uout \in QueryOutcomes,
          sympy_ok \in [1..MaxSteps -> BOOLEAN] :
         /\ rag.global_store.embedding_fn \/ (gout = Raised /\ uout = Raised)
         /\ user_id = None => uout = Raised
         /\ \E res \in {solve(rag, problem, user_id, verify, gout, uout, sympy_ok)} :
              /\ \A i \in 1..MaxSteps :
                   (~verify \/ i > Len(res.out.plan)) => sympy_ok[i]
              /\ rag' = res.rag
              /\ call' = [op |-> "solve", problem |-> problem,
                          user_id |-> user_id, verify |-> verify,
                          out |-> res.out]
    /\ UNCHANGED <<store, clock, threads, heap, lg_rag>>

NextSystem == IngestDomainDocs \/ Solve \/ Return

SpecSystem == InitSystem /\ [][NextSystem]_vars

\* whether the document scores above 0 against the problem, whatever the
\* embedder does on the problem text
ScoresAboveZero(rec, problem) ==
    \A gout \in QueryOutcomes :
        ScorePositive(RecordScore(problem,
                                  QueryEmbedding(lg_rag.global_store, gout), rec))

\* C16 (as claimed): a document ingested with ingest_domain_docs that scores
\* above 0 against the problem is in the rag_context of every later solve of
\* that problem, which is therefore non-empty.
C16_IngestedDocsVisible ==
    call.op = "solve" =>
        \A i \in 1..Len(lg_rag.global_store.vectors) :
            ScoresAboveZero(lg_rag.global_store.vectors[i], call.problem) =>
                /\ call.out.rag_context # <<>>
                /\ IsSubstring(lg_rag.global_store.vectors[i].text,
                               call.out.rag_context)

====
